---------------------------- MODULE Spec2Model ----------------------------
(***************************************************************************)
(* Model of AnalogSteppersLogic (logic/analog_steppers_logic.py): a        *)
(* single-shot QTimer drives loop(), which re-arms the timer and, for each *)
(* configured axis, reads and clears the buffered analog value and sends   *)
(* the corresponding number of steps to the stepper hardware.              *)
(*                                                                         *)
(* Analog values are Python floats.  The model represents the float v by   *)
(* the integer v * Scale (thousandths), so 0.5 is 500 and 0.004 is 4.      *)
(*                                                                         *)
(* Threads.  loop() runs in the thread that owns the QTimer; one statement *)
(* of loop()/move() is one step of the model (tickPc names the statement   *)
(* executed next).  The input source that writes _last_value, and the      *)
(* caller of startLoop()/stopLoop()/hello(), run in other contexts and     *)
(* their steps interleave with the statements of a tick.  The class        *)
(* creates self.threadlock but no method ever acquires it.                 *)
(***************************************************************************)
EXTENDS Integers, Sequences, FiniteSets, TLC

\* ------------------------------------------------------------ constants

\* Resolution of the fixed-point representation of an analog value.
Scale == 1000

\* ConfigOption defaults.
ui_frequency == 10
hardware_frequency == 1000
hardware_voltage == 40

\* The Python None of an unused axis slot.
None == "None"

\* _axis configurations explored: the default, one whose first slot is
\* unused, and one naming the same axis in two slots.
AxisConfigs ==
    { <<"x", "y", None>>, <<None, "x", "y">>, <<"x", "x", None>> }

\* Analog values an input source may write (thousandths): out of range on
\* both sides, the range's upper end, a value that truncates to 0 steps.
Values == { -1500, -4, 0, 500, 1000 }

\* Slots of _last_value = [0., .0, .0].
Slots == 1..3

\* Cap on the number of stopLoop() calls counted since the last startLoop().
MaxStops == 2

\* ------------------------------------------------------------ state

VARIABLES
    gamepad,     \* the XINPUT_GAMEPAD that XInputGetState reports
    returned,    \* what get_state() returned last (<< >>: not called yet)
    threadlock,  \* self.threadlock: "unlocked" or "locked"
    axis,        \* self._axis
    activated,   \* on_activate() has run: self.timer and self._hardware exist
    enabled,     \* self._enabled
    armed,       \* self.timer is active (a single-shot expiry is pending)
    last_value,  \* self._last_value
    tickPc,      \* statement of loop()/move() the timer thread executes next
    k,           \* move(): position of the for loop in self._axis (0: none)
    i,           \* move(): local i (0: unset)
    value,       \* move(): local value
    raced,       \* history: _last_value[i] was written since the tick's last access
    inflight,    \* history: a tick was executing when stopLoop() was last called
    nStop,       \* history: hardware.stop() calls since the last startLoop()
    last,        \* history: name of the step taken last
    dev,         \* history: hardware calls made by the step taken last
    logged,      \* history: the step taken last called self.log.error
    lost         \* history: the step taken last erased an in-range value no tick had read

vars == << gamepad, returned, threadlock, axis, activated, enabled, armed, last_value, tickPc, k, i, value,
           raced, inflight, nStop, last, dev, logged, lost >>

\* XINPUT_STATE() before the library has filled it: every field is 0.
NoReading ==
    [ wButtons |-> 0, bLeftTrigger |-> 0, bRightTrigger |-> 0,
      sThumbLX |-> 0, sThumbLY |-> 0, sThumbRX |-> 0, sThumbRY |-> 0 ]

\* ------------------------------------------------------------ hardware calls

Frequency(a, f) == [op |-> "frequency", axis |-> a, arg |-> f]
Voltage(a, v) == [op |-> "voltage", axis |-> a, arg |-> v]
Steps(a, n) == [op |-> "steps", axis |-> a, arg |-> n]
StopAll == [op |-> "stop", axis |-> "all", arg |-> 0]

\* ------------------------------------------------------------ pure helpers

\* Mutant of Trunc: rounds down (np.floor).
Trunc_floor(num, den) == num \div den

\* np.trunc(num / den) for den > 0: rounding toward zero.
Trunc(num, den) ==
    IF num >= 0 THEN num \div den ELSE -((-num) \div den)

\* list.index(a): position of the first occurrence of a.
Index(ax, a) == CHOOSE j \in 1..Len(ax) : ax[j] = a /\ \A h \in 1..(j-1) : ax[h] # a

\* "for axis in self._axis: if axis:" -- the first position >= from whose
\* entry is not None, 0 when the loop is exhausted.
NextSlot(ax, from) ==
    IF \E j \in from..Len(ax) : ax[j] # None
    THEN CHOOSE j \in from..Len(ax) : ax[j] # None /\ \A h \in from..(j-1) : ax[h] = None
    ELSE 0

\* The test of move_axis: analog < -1. or analog > 1
OutOfRange(v) == v < -Scale \/ v > Scale

\* Mutant of StepCount: rounds down (np.floor) instead of toward zero.
StepCount_floor(v) == (hardware_frequency * v) \div (ui_frequency * Scale)

\* steps = np.trunc(self._hardware_frequency / self._ui_frequency * analog)
StepCount(v) == Trunc(hardware_frequency * v, ui_frequency * Scale)

\* move_axis(axis, analog): the hardware calls it makes.
MoveAxisCalls(a, v) ==
    IF v = 0 THEN << >> ELSE << Steps(a, StepCount(v)) >>

\* move_axis(axis, analog): whether it logs an error.
MoveAxisLogs(v) == v # 0 /\ OutOfRange(v)

\* Mutant of SetupCalls: leaves out the "if axis" test.
RECURSIVE SetupCalls_noGuard(_, _)
SetupCalls_noGuard(ax, from) ==
    IF from > Len(ax) THEN << >>
    ELSE << Frequency(ax[from], hardware_frequency),
            Voltage(ax[from], hardware_voltage) >> \o SetupCalls_noGuard(ax, from + 1)

\* setup_axis(): the hardware calls it makes, from position from on.
RECURSIVE SetupCalls(_, _)
SetupCalls(ax, from) ==
    IF from > Len(ax) THEN << >>
    ELSE (IF ax[from] # None
          THEN << Frequency(ax[from], hardware_frequency),
                  Voltage(ax[from], hardware_voltage) >>
          ELSE << >>) \o SetupCalls(ax, from + 1)

\* ------------------------------------------------------------ hello()

notes == [ c |-> 261, d |-> 294, e |-> 329, f |-> 349, g |-> 391, gS |-> 415,
           a |-> 440, aS |-> 455, b |-> 466, cH |-> 523, cSH |-> 554,
           dH |-> 587, dSH |-> 622, eH |-> 659, fH |-> 698, fSH |-> 740,
           gH |-> 784, gSH |-> 830, aH |-> 880 ]

first_section ==
    << <<"a", 500>>, <<"a", 500>>, <<"a", 500>>, <<"f", 350>>, <<"cH", 150>>,
       <<"a", 500>>, <<"f", 350>>, <<"cH", 150>>, <<"a", 650>>, <<"", 500>>,
       <<"eH", 500>>, <<"eH", 500>>, <<"eH", 500>>, <<"fH", 350>>,
       <<"cH", 150>>, <<"gS", 500>>, <<"f", 350>>, <<"cH", 150>>,
       <<"a", 650>>, <<"", 500>> >>

second_section ==
    << <<"aH", 500>>, <<"a", 300>>, <<"a", 150>>, <<"aH", 500>>,
       <<"gSH", 325>>, <<"fSH", 125>>, <<"fH", 125>>, <<"fSH", 250>>,
       <<"", 325>>, <<"aS", 250>>, <<"dSH", 500>>, <<"dH", 325>>,
       <<"cSH", 175>>, <<"cH", 125>>, <<"b", 125>>, <<"cH", 250>>,
       <<"", 350>> >>

variant_1 ==
    << <<"f", 250>>, <<"gS", 500>>, <<"f", 350>>, <<"a", 125>>, <<"cH", 500>>,
       <<"a", 375>>, <<"cH", 125>>, <<"eH", 650>>, <<"", 500>> >>

variant_2 ==
    << <<"f", 250>>, <<"gS", 500>>, <<"f", 375>>, <<"cH", 125>>, <<"a", 500>>,
       <<"f", 375>>, <<"cH", 125>>, <<"a", 650>>, <<"", 650>> >>

total == << first_section, second_section, variant_1, second_section, variant_2 >>

\* steps = int(frequency * (float(duration)/1000.)), negated when not up.
NoteSteps(note, duration, up) ==
    LET n == (notes[note] * duration) \div 1000
    IN  IF up THEN n ELSE -n

\* The body of "for note, duration in total" over the entries of one section
\* from position p on, entered with direction up: the hardware calls.
RECURSIVE PlayCalls(_, _, _, _)
PlayCalls(a, sec, p, up) ==
    IF p > Len(sec) THEN << >>
    ELSE IF sec[p][1] = "" THEN PlayCalls(a, sec, p + 1, ~up)
    ELSE << Frequency(a, notes[sec[p][1]]),
            Steps(a, NoteSteps(sec[p][1], sec[p][2], up)) >>
         \o PlayCalls(a, sec, p + 1, ~up)

\* The same loop over one section: what it adds to count ("count += steps").
RECURSIVE PlayCount(_, _, _)
PlayCount(sec, p, up) ==
    IF p > Len(sec) THEN 0
    ELSE IF sec[p][1] = "" THEN PlayCount(sec, p + 1, ~up)
    ELSE NoteSteps(sec[p][1], sec[p][2], up) + PlayCount(sec, p + 1, ~up)

\* The same loop over one section: the direction it leaves ("up = not up"
\* once per entry).
PlayUp(sec, up) == IF Len(sec) % 2 = 0 THEN up ELSE ~up

\* The loop over total from section n on, entered with the running count and
\* direction, followed by the closing steps(axis, -count).
RECURSIVE HelloFrom(_, _, _, _)
HelloFrom(a, n, count, up) ==
    IF n > Len(total) THEN << Steps(a, -count) >>
    ELSE PlayCalls(a, total[n], 1, up)
         \o HelloFrom(a, n + 1, count + PlayCount(total[n], 1, up), PlayUp(total[n], up))

\* Mutant of HelloCalls: leaves out the closing steps(axis, -count).
HelloCalls_noReturn(ax) ==
    LET calls == HelloFrom(ax[1], 1, 0, TRUE)
    IN  SubSeq(calls, 1, Len(calls) - 1)

\* hello(): the hardware calls of one complete call, for axis = self._axis[0].
HelloCalls(ax) == HelloFrom(ax[1], 1, 0, TRUE)

\* ------------------------------------------------------------ initial state

Init ==
    /\ gamepad = NoReading
    /\ returned = << >>
    /\ threadlock = "unlocked"
    /\ axis \in AxisConfigs
    /\ activated = FALSE
    /\ enabled = FALSE
    /\ armed = FALSE
    /\ last_value = [s \in Slots |-> 0]
    /\ tickPc = "idle"
    /\ k = 0
    /\ i = 0
    /\ value = 0
    /\ raced = FALSE
    /\ inflight = FALSE
    /\ nStop = 0
    /\ last = "init"
    /\ dev = << >>
    /\ logged = FALSE
    /\ lost = FALSE

\* What a step reports: its name, its hardware calls, whether it logged an
\* error and whether it erased an unread in-range value.
Report(name, calls, err, erased) ==
    /\ last' = name
    /\ dev' = calls
    /\ logged' = err
    /\ lost' = erased

\* ------------------------------------------------------------ operations

\* on_activate(): create the single-shot timer, setup_axis(), startLoop().
on_activate ==
    /\ ~activated
    /\ activated' = TRUE
    /\ enabled' = TRUE
    /\ armed' = TRUE
    /\ nStop' = 0
    /\ Report("on_activate", SetupCalls(axis, 1), FALSE, FALSE)
    /\ UNCHANGED << gamepad, returned, threadlock, axis, last_value, tickPc, k, i, value, raced, inflight >>

\* Mutant of startLoop: toggles self._enabled instead of setting it.
startLoop_toggles ==
    /\ activated
    /\ enabled' = ~enabled
    /\ armed' = TRUE
    /\ nStop' = 0
    /\ Report("startLoop", << >>, FALSE, FALSE)
    /\ UNCHANGED << gamepad, returned, threadlock, axis, activated, last_value, tickPc, k, i, value, raced, inflight >>

\* Mutant of startLoop: skips self.start_timer() when the loop is already
\* enabled.
startLoop_noRearm ==
    /\ activated
    /\ enabled' = TRUE
    /\ armed' = IF enabled THEN armed ELSE TRUE
    /\ nStop' = 0
    /\ Report("startLoop", << >>, FALSE, FALSE)
    /\ UNCHANGED << gamepad, returned, threadlock, axis, activated, last_value, tickPc, k, i, value, raced, inflight >>

\* startLoop(): self._enabled = True; self.start_timer().
startLoop ==
    /\ activated
    /\ enabled' = TRUE
    /\ armed' = TRUE
    /\ nStop' = 0
    /\ Report("startLoop", << >>, FALSE, FALSE)
    /\ UNCHANGED << gamepad, returned, threadlock, axis, activated, last_value, tickPc, k, i, value, raced, inflight >>

\* Mutant of stopLoop: returns at once when the loop is already stopped.
stopLoop_once ==
    /\ activated
    /\ nStop < MaxStops
    /\ armed' = IF enabled THEN FALSE ELSE armed
    /\ enabled' = FALSE
    /\ nStop' = nStop + 1
    /\ inflight' = (tickPc # "idle")
    /\ Report("stopLoop", IF enabled THEN << StopAll >> ELSE << >>, FALSE, FALSE)
    /\ UNCHANGED << gamepad, returned, threadlock, axis, activated, last_value, tickPc, k, i, value, raced >>

\* Mutant of stopLoop: leaves out self.timer.stop().
stopLoop_keepsTimer ==
    /\ activated
    /\ nStop < MaxStops
    /\ enabled' = FALSE
    /\ nStop' = nStop + 1
    /\ inflight' = (tickPc # "idle")
    /\ Report("stopLoop", << StopAll >>, FALSE, FALSE)
    /\ UNCHANGED << gamepad, returned, threadlock, axis, activated, armed, last_value, tickPc, k, i, value, raced >>

\* stopLoop(): self.timer.stop(); self._enabled = False; self._hardware.stop().
stopLoop ==
    /\ activated
    /\ nStop < MaxStops
    /\ armed' = FALSE
    /\ enabled' = FALSE
    /\ nStop' = nStop + 1
    /\ inflight' = (tickPc # "idle")
    /\ Report("stopLoop", << StopAll >>, FALSE, FALSE)
    /\ UNCHANGED << gamepad, returned, threadlock, axis, activated, last_value, tickPc, k, i, value, raced >>

\* The input source stores an analog value: self._last_value[s] = v.  The
\* class offers no setter, so the store is a plain list assignment.
set_axis_command(s, v) ==
    /\ last_value' = [last_value EXCEPT ![s] = v]
    /\ raced' = IF tickPc \in {"reset", "move_axis"} /\ s = i THEN TRUE ELSE raced
    /\ Report("set_axis_command", << >>, FALSE, FALSE)
    /\ UNCHANGED << gamepad, returned, threadlock, axis, activated, enabled, armed, tickPc, k, i, value, inflight, nStop >>

\* Mutant of loop: the expiry is delivered while loop() is still executing
\* (as with a timer that calls back from a thread of its own).
loop_reentrant ==
    /\ activated
    /\ armed
    /\ armed' = FALSE
    /\ tickPc' = IF enabled THEN "start_timer" ELSE "idle"
    /\ inflight' = FALSE
    /\ Report("loop", << >>, FALSE, FALSE)
    /\ UNCHANGED << gamepad, returned, threadlock, axis, activated, enabled, last_value, k, i, value, raced, nStop >>

\* Mutant of loop: leaves out the test of self._enabled.
loop_unguarded ==
    /\ activated
    /\ armed
    /\ tickPc = "idle"
    /\ armed' = FALSE
    /\ tickPc' = "start_timer"
    /\ inflight' = FALSE
    /\ Report("loop", << >>, FALSE, FALSE)
    /\ UNCHANGED << gamepad, returned, threadlock, axis, activated, enabled, last_value, k, i, value, raced, nStop >>

\* Mutant of loop: calls self.start_timer() before the test of self._enabled.
loop_rearms ==
    /\ activated
    /\ armed
    /\ tickPc = "idle"
    /\ armed' = ~enabled
    /\ tickPc' = IF enabled THEN "start_timer" ELSE "idle"
    /\ inflight' = FALSE
    /\ Report("loop", << >>, FALSE, FALSE)
    /\ UNCHANGED << gamepad, returned, threadlock, axis, activated, enabled, last_value, k, i, value, raced, nStop >>

\* The timer expires and calls loop(): "if self._enabled:".
loop ==
    /\ activated
    /\ armed
    /\ tickPc = "idle"
    /\ armed' = FALSE
    /\ tickPc' = IF enabled THEN "start_timer" ELSE "idle"
    /\ inflight' = FALSE
    /\ Report("loop", << >>, FALSE, FALSE)
    /\ UNCHANGED << gamepad, returned, threadlock, axis, activated, enabled, last_value, k, i, value, raced, nStop >>

\* Mutant of start_timer: does not restart the timer.
start_timer_noRearm ==
    /\ tickPc = "start_timer"
    /\ armed' = armed
    /\ k' = NextSlot(axis, 1)
    /\ tickPc' = IF NextSlot(axis, 1) = 0 THEN "idle" ELSE "read"
    /\ Report("start_timer", << >>, FALSE, FALSE)
    /\ UNCHANGED << gamepad, returned, threadlock, axis, activated, enabled, last_value, i, value, raced, inflight, nStop >>

\* loop(): self.start_timer(), then move() enters its for loop.
start_timer ==
    /\ tickPc = "start_timer"
    /\ armed' = TRUE
    /\ k' = NextSlot(axis, 1)
    /\ tickPc' = IF NextSlot(axis, 1) = 0 THEN "idle" ELSE "read"
    /\ Report("start_timer", << >>, FALSE, FALSE)
    /\ UNCHANGED << gamepad, returned, threadlock, axis, activated, enabled, last_value, i, value, raced, inflight, nStop >>

\* Mutant of move_read: acquires self.threadlock for the read and keeps it
\* through the hardware call.
move_read_locks ==
    /\ tickPc = "read"
    /\ threadlock' = "locked"
    /\ i' = Index(axis, axis[k])
    /\ value' = last_value[Index(axis, axis[k])]
    /\ raced' = FALSE
    /\ tickPc' = "reset"
    /\ Report("move_read", << >>, FALSE, FALSE)
    /\ UNCHANGED << gamepad, returned, axis, activated, enabled, armed, last_value, k, inflight, nStop >>

\* move(): i = self._axis.index(axis); value = self._last_value[i].
move_read ==
    /\ tickPc = "read"
    /\ i' = Index(axis, axis[k])
    /\ value' = last_value[Index(axis, axis[k])]
    /\ raced' = FALSE
    /\ tickPc' = "reset"
    /\ Report("move_read", << >>, FALSE, FALSE)
    /\ UNCHANGED << gamepad, returned, threadlock, axis, activated, enabled, armed, last_value, k, inflight, nStop >>

\* move(): self._last_value[i] = 0.
move_reset ==
    /\ tickPc = "reset"
    /\ last_value' = [last_value EXCEPT ![i] = 0]
    /\ raced' = FALSE
    /\ tickPc' = "move_axis"
    /\ Report("move_reset", << >>, FALSE, raced /\ ~OutOfRange(last_value[i]))
    /\ UNCHANGED << gamepad, returned, threadlock, axis, activated, enabled, armed, k, i, value, inflight, nStop >>

\* move(): self.move_axis(axis, value), then the for loop advances.
move_axis ==
    /\ tickPc = "move_axis"
    /\ k' = NextSlot(axis, k + 1)
    /\ i' = 0
    /\ value' = 0
    /\ raced' = FALSE
    /\ tickPc' = IF NextSlot(axis, k + 1) = 0 THEN "idle" ELSE "read"
    /\ Report("move_axis", MoveAxisCalls(axis[k], value), MoveAxisLogs(value), FALSE)
    /\ UNCHANGED << gamepad, returned, threadlock, axis, activated, enabled, armed, last_value, inflight, nStop >>

\* move(): self.move_axis(axis, value) when self._hardware.steps raises.
\* Neither move_axis, move nor loop catches the exception: it ends the tick.
move_axis_raises ==
    /\ tickPc = "move_axis"
    /\ value # 0
    /\ k' = 0
    /\ i' = 0
    /\ value' = 0
    /\ raced' = FALSE
    /\ tickPc' = "idle"
    /\ Report("move_axis_raises", MoveAxisCalls(axis[k], value), MoveAxisLogs(value), FALSE)
    /\ UNCHANGED << gamepad, returned, threadlock, axis, activated, enabled, armed, last_value, inflight, nStop >>

\* hello(): plays its tune on self._axis[0].
hello ==
    /\ activated
    /\ tickPc = "idle"
    /\ Report("hello", HelloCalls(axis), FALSE, FALSE)
    /\ UNCHANGED << gamepad, returned, threadlock, axis, activated, enabled, armed, last_value, tickPc, k, i, value,
                    raced, inflight, nStop >>

Next ==
    \/ on_activate
    \/ startLoop
    \/ stopLoop
    \/ \E s \in Slots, v \in Values : set_axis_command(s, v)
    \/ loop
    \/ start_timer
    \/ move_read
    \/ move_reset
    \/ move_axis
    \/ move_axis_raises
    \/ hello

Spec == Init /\ [][Next]_vars

\* The event loop delivers a pending timer expiry, and a slot that has been
\* entered runs on to its end (or to the exception that ends it).
FairSpec ==
    /\ Spec
    /\ WF_vars(loop)
    /\ WF_vars(start_timer)
    /\ WF_vars(move_read)
    /\ WF_vars(move_reset)
    /\ WF_vars(move_axis \/ move_axis_raises)

\* ------------------------------------------------------------ a second instance

\* self._last_value as an instance reads it.  _last_value is bound once, in
\* the class body, and no method binds it on an instance, so the lookup
\* finds the one list of the class whichever instance asks.
Instances == { "self", "other" }
LastValueOf(inst) == last_value

\* The input source of another instance of the class stores an analog value:
\* other._last_value[s] = v, an item assignment into the list of the class.
set_axis_command_other(s, v) ==
    /\ last_value' = [last_value EXCEPT ![s] = v]
    /\ raced' = IF tickPc \in {"reset", "move_axis"} /\ s = i THEN TRUE ELSE raced
    /\ Report("set_axis_command_other", << >>, FALSE, FALSE)
    /\ UNCHANGED << gamepad, returned, threadlock, axis, activated, enabled, armed, tickPc, k, i, value, inflight, nStop >>

\* The loop with a second instance of the class writing its pending values.
ShareNext ==
    \/ Next
    \/ \E s \in Slots, v \in Values : set_axis_command_other(s, v)

ShareSpec == Init /\ [][ShareNext]_vars

\* ------------------------------------------------------------ the conversion alone

\* Every analog value of [-1.0, 1.0] at the model's resolution.
Analogs == (-Scale)..Scale

\* The started loop with one analog value buffered in every slot.
ConvInit ==
    /\ gamepad = NoReading
    /\ returned = << >>
    /\ threadlock = "unlocked"
    /\ axis \in AxisConfigs
    /\ activated = TRUE
    /\ enabled = TRUE
    /\ armed = TRUE
    /\ \E v \in Analogs : last_value = [s \in Slots |-> v]
    /\ tickPc = "idle"
    /\ k = 0
    /\ i = 0
    /\ value = 0
    /\ raced = FALSE
    /\ inflight = FALSE
    /\ nStop = 0
    /\ last = "set_axis_command"
    /\ dev = << >>
    /\ logged = FALSE
    /\ lost = FALSE

\* The statements of a tick, with no other thread.
ConvNext ==
    \/ loop
    \/ start_timer
    \/ move_read
    \/ move_reset
    \/ move_axis

ConvSpec == ConvInit /\ [][ConvNext]_vars

\* ------------------------------------------------------------ the gamepad reader

\* The ranges of ctypes.c_short, c_ubyte and c_ushort.
ShortMin == -32768
ShortMax == 32767
UByteMax == 255
UShortMax == 65535

\* The fields of XINPUT_GAMEPAD and the values each can hold.
Fields ==
    { "wButtons", "bLeftTrigger", "bRightTrigger",
      "sThumbLX", "sThumbLY", "sThumbRX", "sThumbRY" }
FieldRange(f) ==
    IF f = "wButtons" THEN 0..UShortMax
    ELSE IF f \in {"bLeftTrigger", "bRightTrigger"} THEN 0..UByteMax
    ELSE ShortMin..ShortMax

\* What XInputGetState can report with field f away from rest: every value
\* of the field.
Readings(f) == { [NoReading EXCEPT ![f] = r] : r \in FieldRange(f) }

scales_maximum == [ joystick |-> 32767, trigger |-> 255 ]

bitmasks ==
    [ XINPUT_GAMEPAD_DPAD_UP |-> 1, XINPUT_GAMEPAD_DPAD_DOWN |-> 2,
      XINPUT_GAMEPAD_DPAD_LEFT |-> 4, XINPUT_GAMEPAD_DPAD_RIGHT |-> 8,
      XINPUT_GAMEPAD_START |-> 16, XINPUT_GAMEPAD_BACK |-> 32,
      XINPUT_GAMEPAD_LEFT_THUMB |-> 64, XINPUT_GAMEPAD_RIGHT_THUMB |-> 128,
      XINPUT_GAMEPAD_LEFT_SHOULDER |-> 256, XINPUT_GAMEPAD_RIGHT_SHOULDER |-> 512,
      XINPUT_GAMEPAD_A |-> 4096, XINPUT_GAMEPAD_B |-> 8192,
      XINPUT_GAMEPAD_X |-> 16384, XINPUT_GAMEPAD_Y |-> 32768 ]

\* The float num / den, kept as the exact quotient of the two integers: the
\* division is correctly rounded, so it compares with -1.0, 0.0 and 1.0 as
\* the exact quotient does.
Quotient(num, den) == [ num |-> num, den |-> den ]

\* bool(value_buttons & mask) for a mask of one bit.
ButtonDown(value_buttons, mask) == (value_buttons \div mask) % 2 = 1

\* The dictionary get_state() builds from the reported fields.
GetState(g) ==
    [ axis |->
        [ left_vertical |-> Quotient(g.sThumbLX, scales_maximum.joystick),
          left_horizontal |-> Quotient(g.sThumbLY, scales_maximum.joystick),
          right_vertical |-> Quotient(g.sThumbRY, scales_maximum.joystick),
          right_horizontal |-> Quotient(g.sThumbRX, scales_maximum.joystick),
          left_trigger |-> Quotient(g.bLeftTrigger, scales_maximum.trigger),
          right_trigger |-> Quotient(g.bRightTrigger, scales_maximum.trigger) ],
      buttons |->
        [ left_up |-> ButtonDown(g.wButtons, bitmasks.XINPUT_GAMEPAD_DPAD_UP),
          left_down |-> ButtonDown(g.wButtons, bitmasks.XINPUT_GAMEPAD_DPAD_DOWN),
          left_left |-> ButtonDown(g.wButtons, bitmasks.XINPUT_GAMEPAD_DPAD_LEFT),
          left_right |-> ButtonDown(g.wButtons, bitmasks.XINPUT_GAMEPAD_DPAD_RIGHT),
          left_joystick |-> ButtonDown(g.wButtons, bitmasks.XINPUT_GAMEPAD_LEFT_THUMB),
          right_up |-> ButtonDown(g.wButtons, bitmasks.XINPUT_GAMEPAD_Y),
          right_down |-> ButtonDown(g.wButtons, bitmasks.XINPUT_GAMEPAD_A),
          right_left |-> ButtonDown(g.wButtons, bitmasks.XINPUT_GAMEPAD_X),
          right_right |-> ButtonDown(g.wButtons, bitmasks.XINPUT_GAMEPAD_B),
          right_joystick |-> ButtonDown(g.wButtons, bitmasks.XINPUT_GAMEPAD_RIGHT_THUMB),
          middle_left |-> ButtonDown(g.wButtons, bitmasks.XINPUT_GAMEPAD_BACK),
          middle_right |-> ButtonDown(g.wButtons, bitmasks.XINPUT_GAMEPAD_START),
          left_shoulder |-> ButtonDown(g.wButtons, bitmasks.XINPUT_GAMEPAD_LEFT_SHOULDER),
          right_shoulder |-> ButtonDown(g.wButtons, bitmasks.XINPUT_GAMEPAD_RIGHT_SHOULDER) ] ]

\* get_state(): XInputGetState fills state, the dictionary is returned.
get_state ==
    /\ returned' = << GetState(gamepad) >>
    /\ Report("get_state", << >>, FALSE, FALSE)
    /\ UNCHANGED << gamepad, threadlock, axis, activated, enabled, armed, last_value,
                    tickPc, k, i, value, raced, inflight, nStop >>

\* The reader alone, whatever the controller reports, beside a loop that has
\* not been activated.
JoyInit ==
    /\ \E f \in Fields : gamepad \in Readings(f)
    /\ returned = << >>
    /\ threadlock = "unlocked"
    /\ axis = << "x", "y", None >>
    /\ activated = FALSE
    /\ enabled = FALSE
    /\ armed = FALSE
    /\ last_value = [s \in Slots |-> 0]
    /\ tickPc = "idle"
    /\ k = 0
    /\ i = 0
    /\ value = 0
    /\ raced = FALSE
    /\ inflight = FALSE
    /\ nStop = 0
    /\ last = "init"
    /\ dev = << >>
    /\ logged = FALSE
    /\ lost = FALSE

JoyNext == get_state

JoySpec == JoyInit /\ [][JoyNext]_vars

\* ------------------------------------------------------------ properties

\* The hardware calls of the step taken last that are steps(axis, n) calls.
StepsCalls == { n \in 1..Len(dev) : dev[n].op = "steps" }

\* C1 (as claimed): for every value v in [-1.0, 1.0] a tick that consumes v
\* for an axis sends steps(axis, trunc(hardware_frequency / ui_frequency * v)).
C1_EveryValueIsSent ==
    [][ (last' = "move_axis" /\ ~OutOfRange(value))
            => dev' = << Steps(axis[k], Trunc(hardware_frequency * value, ui_frequency * Scale)) >> ]_vars

\* C1 (amended): a tick reads the pending value stored at the axis's index;
\* for a non-zero value v in [-1.0, 1.0] it sends exactly
\* steps(axis, trunc(hardware_frequency / ui_frequency * v)), for v = 0 it
\* sends nothing; and when it has dispatched, the pending value is 0 unless
\* it was written again after the tick's reset.
C1_ValueIsSentUnlessZero ==
    [][ /\ last' = "move_read"
            => /\ i' = Index(axis, axis[k])
               /\ value' = last_value[Index(axis, axis[k])]
        /\ (last' = "move_axis" /\ ~OutOfRange(value) /\ value # 0)
            => dev' = << Steps(axis[k], Trunc(hardware_frequency * value, ui_frequency * Scale)) >>
        /\ (last' = "move_axis" /\ value = 0) => dev' = << >>
        /\ (last' = "move_axis" /\ ~raced) => last_value'[i] = 0 ]_vars

\* C1 witness: 0.5 was written for x and a tick of the enabled loop has sent
\* steps(x, 50) and left the pending value at 0.
C1_Witness ==
    /\ last = "move_axis"
    /\ enabled
    /\ dev = << Steps("x", 50) >>
    /\ last_value[Index(axis, "x")] = 0

\* C2: the hardware never receives a steps call whose step count is 0.
C2_NoZeroSteps == \A n \in StepsCalls : dev[n].arg # 0

\* C3: a value outside [-1.0, 1.0] submitted for an axis leaves the pending
\* value unchanged and is reported by a logged error: no write step changes
\* a pending value to a value out of range.
C3_OutOfRangeWriteRejected ==
    [][ \A s \in Slots :
            (last' = "set_axis_command" /\ last_value'[s] # last_value[s])
                => ~OutOfRange(last_value'[s]) ]_vars

\* C4: pending values stay in [-1.0, 1.0], so every steps call a tick issues
\* has a magnitude of at most hardware_frequency / ui_frequency: no value out
\* of range is converted into a step command.
C4_StepsBounded ==
    last = "move_axis" =>
        \A n \in StepsCalls :
            /\ dev[n].arg * ui_frequency <= hardware_frequency
            /\ -dev[n].arg * ui_frequency <= hardware_frequency

C6_NoStepsWhileStopped ==
    (activated /\ ~enabled /\ last # "hello") => StepsCalls = {}

\* C6 (amended): once stopLoop() has been called and until startLoop() is
\* called, a steps call is sent by a tick only if that tick was already
\* executing when stopLoop() was called.
C6_StepsOnlyFromTickInFlight ==
    (activated /\ ~enabled /\ ~inflight /\ last # "hello") => StepsCalls = {}

\* C6 witness: the loop is stopped, no tick was executing at the stop, and a
\* non-zero value has been written for the first slot since.
C6_Witness ==
    /\ activated
    /\ ~enabled
    /\ ~inflight
    /\ last = "set_axis_command"
    /\ last_value[1] = 500

\* C7 (as claimed): after stopLoop() has returned and until startLoop() is
\* called, the timer is not armed.
C7_NotArmedWhileStopped == (activated /\ ~enabled) => ~armed

\* C7 (amended): after stopLoop() has returned and until startLoop() is
\* called, the timer is armed or a tick executes only if a tick was already
\* executing when stopLoop() was called (that tick re-arms the timer once; the
\* expiry it arms finds enabled false).
C7_OnlyTickInFlightRearms ==
    (activated /\ ~enabled /\ ~inflight) => (~armed /\ tickPc = "idle")

\* C7 witness: stopLoop() was called while a tick was executing, that tick
\* re-armed the timer, and the expiry has found the loop stopped.
C7_Witness ==
    /\ last = "loop"
    /\ ~enabled
    /\ ~armed
    /\ tickPc = "idle"
    /\ nStop = 1

\* C8: the hardware never receives a call whose axis argument is None.
C8_NoCallForNone == \A n \in 1..Len(dev) : dev[n].axis # None

\* C9: no tick's reset erases an in-range value that was written after the
\* tick's read of the slot and that no tick has read.
C9_ReadResetAtomic == ~lost

\* C10: a timer expiry that finds enabled false does nothing: it does not
\* re-arm the timer, runs no statement of move(), sends no hardware call and
\* leaves enabled and every pending value unchanged.
C10_DisabledTickDoesNothing ==
    [][ (last' = "loop" /\ ~enabled)
            => /\ ~armed'
               /\ tickPc' = "idle"
               /\ dev' = << >>
               /\ last_value' = last_value
               /\ enabled' = enabled ]_vars

\* C10 witness: an expiry has found the loop stopped while a pending value
\* for the first slot is buffered.
C10_Witness ==
    /\ last = "loop"
    /\ ~enabled
    /\ ~armed
    /\ last_value[1] = 500

C12_StartIdempotent ==
    [][ last' = "startLoop"
            => /\ enabled'
               /\ armed'
               /\ dev' = << >>
               /\ UNCHANGED << last_value, tickPc, k, i, value >>
               /\ (enabled /\ armed) => UNCHANGED << enabled, armed >> ]_vars

\* C12 witness: startLoop() was called on a started loop, during a tick that
\* no stopLoop() has interrupted.
C12_Witness ==
    /\ last = "startLoop"
    /\ tickPc = "start_timer"
    /\ ~inflight
    /\ enabled
    /\ armed

\* C13: when hardware.steps fails for one axis, the same tick goes on to
\* the next configured axis, the loop stays enabled and the timer stays armed.
C13_FailureDoesNotBlock ==
    [][ last' = "move_axis_raises"
            => /\ k' = NextSlot(axis, k + 1)
               /\ tickPc' = IF NextSlot(axis, k + 1) = 0 THEN "idle" ELSE "read"
               /\ enabled' = enabled
               /\ armed' = armed ]_vars

\* The step count of the steps call in calls, 0 when there is none.
StepsSent(calls) == IF calls = << >> THEN 0 ELSE calls[1].arg

\* C14: the conversion is sign-symmetric and truncates toward zero: what a
\* tick sends for v is the negation of the step count of -v, and a negative v
\* with |hardware_frequency / ui_frequency * v| < 1 gives 0 steps.
C14_SignSymmetric ==
    [][ last' = "move_axis"
            => /\ StepsSent(dev') = -StepCount(-value)
               /\ (value < 0 /\ -(hardware_frequency * value) < ui_frequency * Scale)
                      => StepsSent(dev') = 0 ]_vars

\* C14 witness: -0.004 was dispatched for x as 0 steps.
C14_Witness ==
    /\ last = "move_axis"
    /\ dev = << Steps("x", 0) >>
    /\ last_value[2] = -4

\* The axes named by the configuration, and the slots naming axis a.
ConfiguredAxes == { axis[s] : s \in 1..Len(axis) } \ { None }
SlotsOf(a) == { s \in 1..Len(axis) : axis[s] = a }

\* How often the call c occurs in calls.
CallCount(calls, c) == Cardinality({ n \in 1..Len(calls) : calls[n] = c })

\* C15 (as claimed): at activation every configured axis receives exactly
\* one frequency(axis, hardware_frequency) and one voltage(axis,
\* hardware_voltage).
C15_OneSetupPerAxis ==
    last = "on_activate" =>
        \A a \in ConfiguredAxes :
            /\ CallCount(dev, Frequency(a, hardware_frequency)) = 1
            /\ CallCount(dev, Voltage(a, hardware_voltage)) = 1

\* C15 (amended): activation sends one frequency and one voltage call for
\* every slot that names an axis (twice for an axis named in two slots) and
\* nothing else; until then the timer has not been armed, no tick has run and
\* no hardware call has been made, so the calls precede every steps call.
C15_OneSetupPerSlot ==
    /\ ~activated => (~armed /\ ~enabled /\ tickPc = "idle" /\ dev = << >>)
    /\ last = "on_activate" =>
        /\ \A a \in ConfiguredAxes :
            /\ CallCount(dev, Frequency(a, hardware_frequency)) = Cardinality(SlotsOf(a))
            /\ CallCount(dev, Voltage(a, hardware_voltage)) = Cardinality(SlotsOf(a))
        /\ Len(dev) = 2 * Cardinality({ s \in 1..Len(axis) : axis[s] # None })
        /\ armed
        /\ enabled

\* C15 witness: the loop was activated with x named in two slots.
C15_Witness ==
    /\ last = "on_activate"
    /\ axis = << "x", "x", None >>
    /\ Len(dev) = 4
    /\ armed

\* C16: enabled is false until activation and afterwards true exactly when
\* the latest of on_activate()/startLoop()/stopLoop() was not stopLoop(); no
\* statement of a tick changes it.
C16_EnabledFollowsStartStop ==
    /\ [](enabled = (activated /\ nStop = 0))
    /\ [][ last' \in {"loop", "start_timer", "move_read", "move_reset",
                      "move_axis", "move_axis_raises"} => enabled' = enabled ]_vars

\* C16 witness: a tick was interrupted by stopLoop(), startLoop() followed,
\* and the tick has dispatched since: enabled is true.
C16_Witness ==
    /\ last = "move_axis"
    /\ inflight
    /\ enabled
    /\ nStop = 0

\* C17: a tick consumes the pending expiry and restarts the timer once, in
\* start_timer(), and no other statement of it touches the timer; whenever
\* the loop is enabled and no tick is executing an expiry is pending; and
\* when the event loop is fair, ticks of an enabled loop begin again and
\* again.
C17_SelfRearming ==
    /\ [](enabled /\ tickPc = "idle" => armed)
    /\ [][ /\ last' = "loop" => (armed /\ ~armed')
           /\ last' = "start_timer" => armed'
           /\ last' \in {"move_read", "move_reset", "move_axis", "move_axis_raises"}
                  => armed' = armed ]_vars
    /\ []<>(~enabled \/ (last = "loop" /\ tickPc = "start_timer"))

\* C17 witness: a tick of a loop that was never stopped has run to its end
\* and the next expiry is pending.
C17_Witness ==
    /\ last = "move_axis"
    /\ tickPc = "idle"
    /\ enabled
    /\ armed
    /\ ~inflight
    /\ dev # << >>

\* C18: no hardware call (frequency, voltage, steps, stop) is made by a step
\* that begins or ends with self.threadlock locked.
C18_NoDeviceCallUnderLock ==
    [][ dev' # << >> => (threadlock = "unlocked" /\ threadlock' = "unlocked") ]_vars

\* C18 witness: a tick has just sent a steps call, a written value is
\* pending, and the lock is free.
C18_Witness ==
    /\ last = "move_axis"
    /\ dev # << >>
    /\ dev[1].op = "steps"
    /\ \E s \in Slots : last_value[s] # 0
    /\ threadlock = "unlocked"

\* C19: in a tick the slots are taken in their configured order, the slot at
\* position k reads and resets the pending value at position k, and it sends
\* at most one steps call.
C19_SlotConsumesOwnPosition ==
    [][ /\ last' = "move_read" => (i' = k /\ value' = last_value[k])
        /\ last' = "move_reset" => (last_value'[k] = 0 /\ k' = k)
        /\ last' = "move_axis" => (Len(dev') <= 1 /\ (k' = 0 \/ k' > k)) ]_vars

\* The steps calls among calls, in order, and the sum of the step counts of
\* the calls at positions lo..hi.
StepsOf(calls) == SelectSeq(calls, LAMBDA c : c.op = "steps")
RECURSIVE SumSteps(_, _, _)
SumSteps(calls, lo, hi) ==
    IF lo > hi THEN 0
    ELSE IF lo = hi THEN calls[lo].arg
    ELSE LET mid == (lo + hi) \div 2
         IN  SumSteps(calls, lo, mid) + SumSteps(calls, mid + 1, hi)

\* The tune as one list, and for the n-th note its position in that list
\* (rests are entries too).
Tune == total[1] \o total[2] \o total[3] \o total[4] \o total[5]
NotePositions == { p \in 1..Len(Tune) : Tune[p][1] # "" }
NotePos == [ n \in 1..Cardinality(NotePositions) |->
               CHOOSE p \in NotePositions :
                   Cardinality({ q \in NotePositions : q <= p }) = n ]

\* C20 (as claimed): the step counts of one hello() sum to 0 and every note
\* has the opposite sign of the note before it.
C20_ReturnsAndAlternates ==
    last = "hello" =>
        LET st == StepsOf(dev)
        IN  /\ SumSteps(st, 1, Len(st)) = 0
            /\ \A n \in 1..(Len(st) - 2) : (st[n].arg > 0) # (st[n + 1].arg > 0)

\* C20 (amended): the step counts of one hello() sum to 0, the last call
\* undoing the notes, and a note is played upwards exactly when its entry
\* has an odd position in the tune, rests counted: notes next to each other
\* alternate, notes on either side of a rest have the same sign.
C20_ReturnsToOrigin ==
    last = "hello" =>
        LET st == StepsOf(dev)
        IN  /\ SumSteps(st, 1, Len(st)) = 0
            /\ Len(st) = Cardinality(NotePositions) + 1
            /\ st[Len(st)].arg = -SumSteps(st, 1, Len(st) - 1)
            /\ \A n \in 1..(Len(st) - 1) :
                   /\ st[n].arg # 0
                   /\ (st[n].arg > 0) = (NotePos[n] % 2 = 1)

\* C20 witness: hello() has played the whole tune on x and stepped back.
C20_Witness ==
    /\ last = "hello"
    /\ axis[1] = "x"
    /\ Len(dev) = 129
    /\ dev[129] = Steps("x", -1038)

\* C21: a write to the pending values of one instance, or a tick of one
\* instance, leaves the pending values that the other instance reads as
\* they were.
C21_PendingValuesOwned ==
    [][ /\ last' = "set_axis_command_other"
               => LastValueOf("self")' = LastValueOf("self")
        /\ last' \in {"set_axis_command", "move_reset"}
               => LastValueOf("other")' = LastValueOf("other") ]_vars

=============================================================================
